---- MODULE Spec2Model ----
(***************************************************************************)
(* Hive metastore export of databricks_migrate: HiveMigrations in          *)
(* migrations/hive.py, with the ClusterMigrations helpers it calls from    *)
(* migrations/clusters.py.                                                 *)
(*                                                                         *)
(* Names are sequences of characters; a character is a positive integer    *)
(* and Dot is the '.' that joins and splits "db.table".  The i-th database *)
(* of the workspace is named <<i>> and the j-th table of a database <<j>>. *)
(* One action is one remote statement (or one local step between two       *)
(* statements) of export_hive_metastore / retry_failed_metastore_export,   *)
(* of export_database and of import_hive_metastore.  submit_command is one *)
(* step there; SpecCmd follows it request by request.  The cluster service *)
(* restarts an edited cluster in steps of its own.  SpecClusters and       *)
(* SpecClusterImport follow remove_automated_clusters and                  *)
(* import_cluster_configs of ClusterMigrations, one loop turn per action.  *)
(***************************************************************************)
EXTENDS Integers, Sequences, FiniteSets, TLC

\* ---------------------------------------------------------------- bounds
MaxDbs == 2
MaxTables == 2
MaxTotalTables == 2
MaxRoles == 2
MaxListing == 201
MaxListingErrors == 1
MaxFailed == 2

\* ------------------------------------------------------ program constants
batch_size == 100
Dot == 0

VARIABLES
  pc,               \* position in export_hive_metastore / retry
  entry,            \* the method that was called
  abort_cause,      \* the exception that ended the run, "" while none
  aws,              \* self.is_aws()
  skip_failed,      \* self.is_skip_failed()
  num_dbs,          \* remote workspace: number of databases
  num_tables,       \* remote workspace: tables per database index
  ctx,              \* remote execution context: its id and python variables
  ctx_count,        \* execution contexts created so far
  cluster,          \* metastore cluster: [role, edits, state, pending]
  all_dbs,          \* local list built by log_all_databases
  db_i,             \* index of db_name in "for db_name in all_dbs"
  num_of_buckets,   \* local of log_all_databases / log_all_tables
  m,                \* loop variable of "for m in range(0, num_of_buckets)"
  table_names,      \* slice being iterated in log_all_tables
  tbl_i,            \* index of table_name in "for table_name in table_names"
  failed_log,       \* failed_metastore.log: [exists, lines]
  ms_dirs,          \* metastore/<db> directories
  ms_files,         \* metastore/<db>/<table> files: path :> content
  total_failed_entries,
  ip_log,           \* instance_profiles.log lines (the roles)
  role_i,           \* index of role in "for role in iam_log"
  err_log_list,     \* in-memory failing list of the retry pass
  it_i,             \* position of the list iterator of "for table in err_log_list"
  pre_retry_log,    \* history: lines of the failure log when the retry loaded it
  submitted,        \* history: statements submitted, in order
  listing_errors,   \* history: 'show tables' statements that returned an error
  role_start,       \* history: err_log_list when the current role's turn started
  log_rewrites,     \* history: times the retry removed and rewrote the failure log
  text_under,       \* history: <<"db.table", role>> whose extraction returns text
  command,          \* submit_command: the statement being submitted
  com_id,           \* submit_command: command.get('id', None)
  remote_cmd,       \* the command on the cluster: [status, results]
  resp,             \* submit_command: the last /commands/status response
  is_running,       \* submit_command: resp['status']
  end_results,      \* submit_command: what it returned
  status_log,       \* history: the /commands/status responses, in order
  error_log,        \* history: log.error lines
  ms_plain,         \* plain files at the database level of the metastore directory
  db_list,          \* import_hive_metastore: os.listdir(ms_local_dir)
  imp_i,            \* index of db in "for db in db_list"
  tables,           \* import_hive_metastore: os.listdir(local_db_path)
  imp_x,            \* index of x in "for x in tables"
  replayed,         \* history: [db, tbl, statement] of each apply_table_ddl call
  cluster_list,     \* remove_automated_clusters: its argument
  rac_i,            \* index of cluster in "for cluster in cluster_list"
  clean_cluster_list,
  skipped_log,      \* skipped_clusters.log: its lines
  clusters_log,     \* clusters.log: [exists, lines], a line being a cluster config
  workspace,        \* target workspace: the cluster_name of each of its clusters
  current_cluster_names,
  ici_i,            \* index of line in "for line in fp" of import_cluster_configs
  create_calls,     \* history: the create_cluster calls, in order
  runs              \* history: import_cluster_configs calls that returned

vars == <<pc, entry, abort_cause, aws, skip_failed, num_dbs, num_tables, ctx, ctx_count,
          cluster, all_dbs, db_i, num_of_buckets, m, table_names, tbl_i,
          failed_log, ms_dirs, ms_files, total_failed_entries, ip_log, role_i,
          err_log_list, it_i, pre_retry_log, submitted, listing_errors, role_start,
          log_rewrites, text_under, command, com_id, remote_cmd, resp, is_running,
          end_results, status_log, error_log, ms_plain, db_list, imp_i, tables,
          imp_x, replayed, cluster_list, rac_i, clean_cluster_list, skipped_log,
          clusters_log, workspace, current_cluster_names, ici_i, create_calls, runs>>

\* clusters.py, outside the cluster a hive run drives
racv == <<cluster_list, rac_i, clean_cluster_list, skipped_log>>
iciv == <<clusters_log, workspace, current_cluster_names, ici_i, create_calls, runs>>
clv == <<racv, iciv>>
hivecfg == <<entry, aws, skip_failed, num_dbs, num_tables>>
\* what no step of the hive client assigns
cfgv == <<hivecfg, clv>>
impv == <<ms_plain, db_list, imp_i, tables, imp_x, replayed>>
cmdv == <<command, com_id, remote_cmd, resp, is_running, end_results, status_log,
          error_log>>
crawlv == <<all_dbs, db_i, num_of_buckets, m, table_names, tbl_i>>
diskv == <<failed_log, ms_dirs, ms_files>>
retryv == <<total_failed_entries, ip_log, role_i, err_log_list, it_i, pre_retry_log,
            role_start, log_rewrites>>

\* ----------------------------------------------------------------- helpers
NoRole == <<>>
\* a cluster that runs with the configuration it was last given
SettledCluster == [role |-> NoRole, edits |-> 0, state |-> "RUNNING", pending |-> FALSE]
RoleName(i) == <<i>>
DbName(i) == <<i>>
TableName(j) == <<j>>

\* The remote workspace's listings, in the order "show databases" / "show tables" give.
RemoteDbs == [i \in 1..num_dbs |-> DbName(i)]
DbIndex(db) == db[1]
RemoteTables(db) ==
  IF DbIndex(db) \in 1..num_dbs THEN [j \in 1..num_tables[DbIndex(db)] |-> TableName(j)]
  ELSE <<>>

Min(a, b) == IF a < b THEN a ELSE b

\* Python's seq[lo:hi] for 0 <= lo <= hi: the elements at 0-based positions lo..hi-1
\* that exist; shorter, possibly empty, past the end.
PySlice(seq, lo, hi) ==
  IF lo >= Len(seq) THEN <<>> ELSE SubSeq(seq, lo + 1, Min(hi, Len(seq)))

\* '{0}.{1}'.format(db_name, table_name)
FormatTable(db, tbl) == db \o <<Dot>> \o tbl

\* str.split("."): the maximal Dot-free pieces, in order.
RECURSIVE SplitFrom(_, _, _)
SplitFrom(s, k, cur) ==
  IF k > Len(s) THEN <<cur>>
  ELSE IF s[k] = Dot THEN <<cur>> \o SplitFrom(s, k + 1, <<>>)
  ELSE SplitFrom(s, k + 1, Append(cur, s[k]))
SplitDot(s) == SplitFrom(s, 1, <<>>)

\* The text "show create table db.tbl" prints when it succeeds.
DdlText(db, tbl) == <<Dot>> \o db \o <<Dot>> \o tbl

TextResult(d) == [resultType |-> "text", data |-> d]
ErrorResult == [resultType |-> "error", summary |-> "err"]

\* What submit_command may return for a statement that prints d when it succeeds.
Results(d) == {TextResult(d), ErrorResult}

\* An error result carries no 'data': results['data'] raises KeyError.
HasData(res) == res.resultType = "text"

Submit(stmt) == submitted' = Append(submitted, stmt)

Abort(cause) == /\ pc' = "aborted"
                /\ abort_cause' = cause

\* A submit_command call: the statement, the role the caller runs it for, the
\* context it names, and the resultType of what came back.
Stmt(kind, lo, hi, db, tbl, role, results) ==
  [kind |-> kind, lo |-> lo, hi |-> hi, db |-> db, tbl |-> tbl, role |-> role,
   ec |-> ctx.id, resultType |-> results.resultType]

Unset == [set |-> FALSE, val |-> <<>>]
Bound(v) == [set |-> TRUE, val |-> v]
NewContext(id) == [id |-> id, all_dbs |-> Unset, all_tables |-> Unset]

NumOfBuckets_Floor(n) == n \div batch_size
\* (n // batch_size) + 1
NumOfBuckets(n) == (n \div batch_size) + 1
\* 'print(xs[{0}:{1}])'.format(batch_size*m, batch_size*(m+1))
SliceLo(k) == batch_size * k
SliceHi(k) == batch_size * (k + 1)

\* get_num_of_lines(fname)
GetNumOfLines(f) == IF ~f.exists THEN 0 ELSE Len(f.lines)

\* list.remove(x): drops the first element equal to x
RECURSIVE RemoveFirst(_, _)
RemoveFirst(list, x) ==
  IF list = <<>> THEN <<>>
  ELSE IF Head(list) = x THEN Tail(list)
  ELSE <<Head(list)>> \o RemoveFirst(Tail(list), x)

Range(f) == {f[i] : i \in DOMAIN f}

\* open(path, "w"): creates or truncates; the content is what is written before close
WriteFile(files, path, content) ==
  [p \in (DOMAIN files) \cup {path} |-> IF p = path THEN content ELSE files[p]]

RECURSIVE SumTo(_, _)
SumTo(f, n) == IF n = 0 THEN 0 ELSE f[n] + SumTo(f, n - 1)

\* results with results['table'] = 'db.table' added: one line of failed_metastore.log
LogLine(res, key) == [resultType |-> res.resultType, summary |-> res.summary, table |-> key]
NoLog == [exists |-> FALSE, lines |-> <<>>]
\* a record left behind by an earlier run
StaleLine == [resultType |-> "error", summary |-> "earlier run",
              table |-> FormatTable(DbName(1), TableName(1))]

\* command.get('id', None) when the response carries no 'id'
NoId == <<>>
\* a key a response does not carry: resp[key] raises KeyError
Absent == [resultType |-> "absent"]
NoStatus == ""
NoCommand == [status |-> NoStatus, results |-> Absent]
NoResp == [status |-> NoStatus, results |-> Absent]

\* no import is running, on a metastore directory without stray files
ImportIdle ==
  /\ ms_plain = {}
  /\ db_list = <<>>
  /\ imp_i = 0
  /\ tables = <<>>
  /\ imp_x = 0
  /\ replayed = <<>>

\* no method of clusters.py outside a hive run is being followed
RemoveAutomatedIdle ==
  /\ cluster_list = <<>>
  /\ rac_i = 0
  /\ clean_cluster_list = <<>>
  /\ skipped_log = <<>>
ImportClustersIdle ==
  /\ clusters_log = [exists |-> FALSE, lines |-> <<>>]
  /\ workspace = <<>>
  /\ current_cluster_names = {}
  /\ ici_i = 0
  /\ create_calls = <<>>
  /\ runs = 0
ClustersIdle == RemoveAutomatedIdle /\ ImportClustersIdle

\* no submit_command call is being followed step by step
CmdIdle ==
  /\ command = <<>>
  /\ com_id = NoId
  /\ remote_cmd = NoCommand
  /\ resp = NoResp
  /\ is_running = NoStatus
  /\ end_results = Absent
  /\ status_log = <<>>
  /\ error_log = <<>>

\* ------------------------------------------------------------------- Init
Start(at, method) ==
  /\ pc = at
  /\ entry = method
  /\ abort_cause = ""
  /\ aws \in BOOLEAN
  /\ skip_failed \in BOOLEAN
  /\ num_dbs \in 0..MaxDbs
  /\ num_tables \in [1..MaxDbs -> 0..MaxTables]
  /\ \A i \in 1..MaxDbs : i > num_dbs => num_tables[i] = 0
  /\ SumTo(num_tables, MaxDbs) <= MaxTotalTables
  /\ ctx = NewContext(0)
  /\ ctx_count = 0
  /\ cluster = SettledCluster
  /\ all_dbs = <<>>
  /\ db_i = 0
  /\ num_of_buckets = 0
  /\ m = 0
  /\ table_names = <<>>
  /\ tbl_i = 0
  \* a failure log of an earlier run may be on disk
  /\ failed_log \in {NoLog, [exists |-> TRUE, lines |-> <<StaleLine>>]}
  /\ ms_dirs = {}
  /\ ms_files = <<>>
  /\ total_failed_entries = 0
  /\ ip_log = <<>>
  /\ role_i = 0
  /\ err_log_list = <<>>
  /\ it_i = 0
  /\ pre_retry_log = <<>>
  /\ submitted = <<>>
  /\ listing_errors = 0
  /\ role_start = <<>>
  /\ log_rewrites = 0
  /\ text_under = {}
  /\ CmdIdle
  /\ ImportIdle
  /\ ClustersIdle

Init == Start("start", "export_hive_metastore")

\* ---------------------------------------------- export_hive_metastore: crawl
\* launch_cluster(): an existing or a new cluster, or "Could not launch cluster"
Launch ==
  /\ pc = "start"
  /\ \E ok \in BOOLEAN :
       IF ok THEN pc' = "get_ec" /\ abort_cause' = abort_cause
       ELSE Abort("Exception: could not launch cluster")
  /\ UNCHANGED <<cfgv, cmdv, impv, crawlv, diskv, retryv, ctx, ctx_count, cluster, submitted,
                 listing_errors, text_under>>

ContextCreate_NoRaise(next_pc) ==
  \E has_id \in BOOLEAN :
    /\ ctx_count' = IF has_id THEN ctx_count + 1 ELSE ctx_count
    /\ ctx' = NewContext(IF has_id THEN ctx_count + 1 ELSE 0)
    /\ pc' = next_pc
    /\ abort_cause' = abort_cause
\* get_execution_context(cid): a new context, or "Remote session error"
ContextCreate(next_pc) ==
  \E has_id \in BOOLEAN :
    IF has_id
    THEN /\ ctx_count' = ctx_count + 1
         /\ ctx' = NewContext(ctx_count + 1)
         /\ pc' = next_pc
         /\ abort_cause' = abort_cause
    ELSE /\ Abort("Exception: Remote session error")
         /\ UNCHANGED <<ctx, ctx_count>>

\* export_hive_metastore, line 151
GetExecutionContext ==
  /\ pc = "get_ec"
  /\ ContextCreate("cleanup")
  /\ UNCHANGED <<cfgv, cmdv, impv, crawlv, diskv, retryv, cluster, submitted, listing_errors,
                 text_under>>

RemoveOldLog_Keep ==
  /\ pc = "cleanup"
  /\ pc' = "count_dbs"
  /\ UNCHANGED <<cfgv, cmdv, impv, crawlv, retryv, diskv, abort_cause, ctx, ctx_count,
                 cluster, submitted, listing_errors, text_under>>
\* if os.path.exists(failed_metastore_log_path): os.remove(failed_metastore_log_path)
RemoveOldLog ==
  /\ pc = "cleanup"
  /\ failed_log' = NoLog
  /\ pc' = "count_dbs"
  /\ UNCHANGED <<cfgv, cmdv, impv, crawlv, retryv, ms_dirs, ms_files, abort_cause, ctx, ctx_count,
                 cluster, submitted, listing_errors, text_under>>

\* "for db_name in all_dbs" (export_hive_metastore, line 157) moves to its next
\* database, or past the loop to line 160; export_database, which has no loop
\* around its one log_all_tables call, returns
NextDatabase(dbs, i) ==
  IF i < Len(dbs) THEN pc' = "list_tables" /\ db_i' = i + 1
  ELSE /\ pc' = IF entry = "export_database" THEN "done" ELSE "count_failed"
       /\ db_i' = i

\* log_all_databases, lines 17-24: 'all_dbs = [...]; print(len(all_dbs))'
CountDatabases ==
  /\ pc = "count_dbs"
  /\ \E results \in Results(Len(RemoteDbs)) :
       /\ Submit(Stmt("count_dbs", 0, 0, <<>>, <<>>, cluster.role, results))
       /\ IF results.resultType # "text"
          THEN /\ Abort("ValueError: cannot identify number of databases")
               /\ UNCHANGED <<ctx, num_of_buckets, m, all_dbs, db_i>>
          ELSE /\ ctx' = [ctx EXCEPT !.all_dbs = Bound(RemoteDbs)]
               /\ num_of_buckets' = NumOfBuckets(results.data)
               /\ m' = 0
               /\ all_dbs' = <<>>
               /\ IF 0 < NumOfBuckets(results.data) THEN pc' = "slice_dbs" /\ db_i' = db_i
                  ELSE NextDatabase(<<>>, 0)
               /\ abort_cause' = abort_cause
  /\ UNCHANGED <<cfgv, cmdv, impv, diskv, retryv, table_names, tbl_i, ctx_count, cluster,
                 listing_errors, text_under>>

\* log_all_databases, lines 27-35: one 'print(all_dbs[lo:hi])' and its names
SliceDatabases ==
  /\ pc = "slice_dbs"
  /\ \E results \in Results(PySlice(ctx.all_dbs.val, SliceLo(m), SliceHi(m))) :
       /\ Submit(Stmt("slice_dbs", SliceLo(m), SliceHi(m), <<>>, <<>>, cluster.role, results))
       /\ IF ~HasData(results)
          THEN /\ Abort("KeyError: 'data'")
               /\ UNCHANGED <<all_dbs, ms_dirs, m, db_i>>
          ELSE LET db_names == results.data
                   dbs == all_dbs \o db_names IN
               /\ all_dbs' = dbs
               /\ ms_dirs' = ms_dirs \cup Range(db_names)
               /\ m' = m + 1
               /\ IF m + 1 < num_of_buckets THEN pc' = "slice_dbs" /\ db_i' = db_i
                  ELSE NextDatabase(dbs, 0)
               /\ abort_cause' = abort_cause
  /\ UNCHANGED <<cfgv, cmdv, impv, retryv, failed_log, ms_files, num_of_buckets, table_names, tbl_i,
                 ctx, ctx_count, cluster, listing_errors, text_under>>

\* log_all_tables, lines 38-39: 'all_tables = [... show tables in db ...]'; its
\* result is never looked at.  A statement that raises binds nothing remotely.
ListTables ==
  /\ pc = "list_tables"
  /\ LET db_name == all_dbs[db_i] IN
     \E results \in (IF listing_errors < MaxListingErrors THEN Results(<<>>)
                        ELSE {TextResult(<<>>)}) :
       /\ Submit(Stmt("list_tables", 0, 0, db_name, <<>>, cluster.role, results))
       /\ IF results.resultType = "text"
          THEN /\ ctx' = [ctx EXCEPT !.all_tables = Bound(RemoteTables(db_name))]
               /\ listing_errors' = listing_errors
          ELSE /\ ctx' = ctx
               /\ listing_errors' = listing_errors + 1
  /\ pc' = "count_tables"
  /\ UNCHANGED <<cfgv, cmdv, impv, crawlv, diskv, retryv, abort_cause, ctx_count, cluster, text_under>>

\* log_all_tables, lines 40-47: 'print(len(all_tables))', then open(err_log_path, 'a')
CountTables ==
  /\ pc = "count_tables"
  /\ \E results \in (IF ctx.all_tables.set THEN Results(Len(ctx.all_tables.val))
                     ELSE {ErrorResult}) :
       /\ Submit(Stmt("count_tables", 0, 0, all_dbs[db_i], <<>>, cluster.role, results))
       /\ IF ~HasData(results)
          THEN /\ Abort("KeyError: 'data'")
               /\ UNCHANGED <<num_of_buckets, m, failed_log, db_i>>
          ELSE /\ num_of_buckets' = NumOfBuckets(results.data)
               /\ m' = 0
               /\ failed_log' = [failed_log EXCEPT !.exists = TRUE]
               /\ IF 0 < NumOfBuckets(results.data) THEN pc' = "slice_tables" /\ db_i' = db_i
                  ELSE NextDatabase(all_dbs, db_i)
               /\ abort_cause' = abort_cause
  /\ UNCHANGED <<cfgv, cmdv, impv, retryv, all_dbs, table_names, tbl_i, ms_dirs, ms_files,
                 ctx, ctx_count, cluster, listing_errors, text_under>>

\* "for m in range(0, num_of_buckets)" of log_all_tables moves on after a slice's
\* last table: to the next slice, or out of log_all_tables to the next database
NextSlice(k) ==
  /\ m' = k
  /\ IF k < num_of_buckets THEN pc' = "slice_tables" /\ db_i' = db_i
     ELSE NextDatabase(all_dbs, db_i)

\* log_all_tables, lines 48-51: one 'print(all_tables[lo:hi])'
SliceTables ==
  /\ pc = "slice_tables"
  /\ \E results \in Results(PySlice(ctx.all_tables.val, SliceLo(m), SliceHi(m))) :
       /\ Submit(Stmt("slice_tables", SliceLo(m), SliceHi(m), all_dbs[db_i], <<>>,
                      cluster.role, results))
       /\ IF ~HasData(results)
          THEN /\ Abort("KeyError: 'data'")
               /\ UNCHANGED <<table_names, tbl_i, m, db_i>>
          ELSE /\ table_names' = results.data
               /\ IF results.data # <<>>
                  THEN pc' = "ddl" /\ tbl_i' = 1 /\ UNCHANGED <<m, db_i>>
                  ELSE tbl_i' = 0 /\ NextSlice(m + 1)
               /\ abort_cause' = abort_cause
  /\ UNCHANGED <<cfgv, cmdv, impv, diskv, retryv, all_dbs, num_of_buckets, ctx, ctx_count, cluster,
                 listing_errors, text_under>>

LogFailure_Dropped(f, results, key) == f
\* lines 60-62: results['table'] = 'db.table'; err_log.write(json.dumps(results) + '\n')
LogFailure(f, results, key) == [f EXCEPT !.lines = Append(@, LogLine(results, key))]

NextTableOfSlice_StopOnFailure(results) ==
  IF results.resultType = "text" /\ tbl_i < Len(table_names)
  THEN tbl_i' = tbl_i + 1 /\ UNCHANGED <<pc, m, db_i>>
  ELSE IF results.resultType = "text" THEN tbl_i' = tbl_i /\ NextSlice(m + 1)
  ELSE pc' = "count_failed" /\ UNCHANGED <<tbl_i, m, db_i>>
\* "for table_name in table_names" (line 52) moves on whatever the result was
NextTableOfSlice(results) ==
  IF tbl_i < Len(table_names) THEN tbl_i' = tbl_i + 1 /\ UNCHANGED <<pc, m, db_i>>
  ELSE tbl_i' = tbl_i /\ NextSlice(m + 1)

\* log_all_tables, lines 52-62: 'show create table db.table' for one table of the
\* slice; the file is opened for writing before the result is looked at
ExtractDdl ==
  /\ pc = "ddl"
  /\ LET db_name == all_dbs[db_i]
         table_name == table_names[tbl_i]
         path == <<db_name, table_name>> IN
     \E results \in (IF Len(failed_log.lines) < MaxFailed
                      THEN Results(DdlText(db_name, table_name))
                      ELSE {TextResult(DdlText(db_name, table_name))}) :
       /\ Submit(Stmt("ddl", 0, 0, db_name, table_name, cluster.role, results))
       /\ IF results.resultType = "text"
          THEN /\ ms_files' = WriteFile(ms_files, path, results.data)
               /\ failed_log' = failed_log
               /\ text_under' = text_under \cup {<<FormatTable(db_name, table_name), cluster.role>>}
          ELSE /\ ms_files' = WriteFile(ms_files, path, <<>>)
               /\ failed_log' = LogFailure(failed_log, results, FormatTable(db_name, table_name))
               /\ text_under' = text_under
       /\ NextTableOfSlice(results)
  /\ UNCHANGED <<cfgv, cmdv, impv, retryv, all_dbs, num_of_buckets, table_names, ms_dirs, abort_cause,
                 ctx, ctx_count, cluster, listing_errors>>

\* export_hive_metastore, lines 160-168: the failure count and the retry decision
CountFailed ==
  /\ pc = "count_failed"
  /\ total_failed_entries' = GetNumOfLines(failed_log)
  /\ pc' = IF (~skip_failed) /\ aws THEN "retry_check" ELSE "done"
  /\ UNCHANGED <<cfgv, cmdv, impv, crawlv, diskv, ip_log, role_i, err_log_list, it_i,
                 pre_retry_log, role_start, log_rewrites, abort_cause, ctx,
                 ctx_count, cluster, submitted, listing_errors, text_under>>

\* ------------------------------------------- retry_failed_metastore_export
\* "for role in iam_log" moves to its next role, or past the loop to line 136
NextRole ==
  pc' = IF role_i < Len(ip_log) THEN "retry_role" ELSE "retry_rewrite"

\* "for table in err_log_list": the list iterator yields list[i] while i < len(list)
NextTable(list, i) ==
  IF i < Len(list) THEN pc' = "retry_attempt" ELSE NextRole

\* lines 103-114, with check_if_instance_profiles_exists (lines 65-73): the
\* registry's profiles are written to instance_profiles.log and the failure log is
\* loaded into err_log_list
CheckInstanceProfiles ==
  /\ pc = "retry_check"
  /\ IF ~aws
     THEN /\ Abort("UnboundLocalError: do_instance_profile_exist")
          /\ UNCHANGED <<total_failed_entries, ip_log, role_i, err_log_list, pre_retry_log>>
     ELSE \E n \in 0..MaxRoles :
            LET ips == [i \in 1..n |-> [instance_profile_arn |-> RoleName(i)]]
                do_instance_profile_exist == ips # <<>> IN
            /\ ip_log' = IF do_instance_profile_exist THEN ips ELSE ip_log
            /\ total_failed_entries' = GetNumOfLines(failed_log)
            /\ IF ~do_instance_profile_exist
               THEN /\ pc' = "done"
                    /\ UNCHANGED <<abort_cause, role_i, err_log_list, pre_retry_log>>
               ELSE IF ~failed_log.exists
               THEN /\ Abort("FileNotFoundError: failed_metastore.log")
                    /\ UNCHANGED <<role_i, err_log_list, pre_retry_log>>
               ELSE /\ err_log_list' = failed_log.lines
                    /\ pre_retry_log' = failed_log.lines
                    /\ role_i' = 0
                    /\ pc' = "retry_role"
                    /\ abort_cause' = abort_cause
  /\ UNCHANGED <<cfgv, cmdv, impv, crawlv, diskv, it_i, role_start, log_rewrites,
                 ctx, ctx_count, cluster, submitted, listing_errors, text_under>>

\* The cluster service, at its own pace: a running cluster whose configuration
\* was edited restarts
ClusterRestarts ==
  /\ pc \notin {"done", "aborted"}
  /\ cluster.pending
  /\ cluster.state = "RUNNING"
  /\ cluster' = [cluster EXCEPT !.state = "RESTARTING"]
  /\ UNCHANGED <<pc, cfgv, cmdv, impv, crawlv, diskv, retryv, abort_cause, ctx, ctx_count,
                 submitted, listing_errors, text_under>>

\* ... and comes back RUNNING with the edited configuration in effect
ClusterRunning ==
  /\ pc \notin {"done", "aborted"}
  /\ cluster.state = "RESTARTING"
  /\ cluster' = [cluster EXCEPT !.state = "RUNNING", !.pending = FALSE]
  /\ UNCHANGED <<pc, cfgv, cmdv, impv, crawlv, diskv, retryv, abort_cause, ctx, ctx_count,
                 submitted, listing_errors, text_under>>

\* lines 116-119 with edit_cluster (clusters.py 312-328): the edit request for the
\* next role is sent; on a deployment without instance profiles nothing is sent
\* and nothing is waited for
EditCluster ==
  /\ pc = "retry_role"
  /\ role_i' = role_i + 1
  /\ LET iam_role == ip_log[role_i + 1].instance_profile_arn IN
     cluster' = IF aws THEN [cluster EXCEPT !.role = iam_role, !.edits = @ + 1,
                                           !.pending = TRUE]
                ELSE cluster
  /\ pc' = IF aws THEN "retry_wait" ELSE "retry_ec"
  /\ UNCHANGED <<cfgv, cmdv, impv, crawlv, diskv, total_failed_entries, ip_log, err_log_list,
                 it_i, pre_retry_log, role_start, log_rewrites, abort_cause, ctx,
                 ctx_count, submitted, listing_errors, text_under>>

\* wait_for_cluster (clusters.py 265-271), called at line 329: get_cluster is
\* polled and the call returns on the first answer whose state is RUNNING
WaitForCluster ==
  /\ pc = "retry_wait"
  /\ cluster.state = "RUNNING"
  /\ pc' = "retry_ec"
  /\ UNCHANGED <<cfgv, cmdv, impv, crawlv, diskv, retryv, abort_cause, ctx, ctx_count, cluster,
                 submitted, listing_errors, text_under>>

ContextOfRole_Stale(id) == ctx
\* ec_id = self.get_execution_context(cid), inside "for role in iam_log"
ContextOfRole(id) == NewContext(id)

\* line 120, then the table loop of this role starts at the head of err_log_list
RetryGetExecutionContext ==
  /\ pc = "retry_ec"
  /\ \E has_id \in BOOLEAN :
       IF has_id
       THEN /\ ctx_count' = ctx_count + 1
            /\ ctx' = ContextOfRole(ctx_count + 1)
            /\ it_i' = 0
            /\ role_start' = err_log_list
            /\ NextTable(err_log_list, 0)
            /\ abort_cause' = abort_cause
       ELSE /\ Abort("Exception: Remote session error")
            /\ UNCHANGED <<ctx, ctx_count, it_i, role_start>>
  /\ UNCHANGED <<cfgv, cmdv, impv, crawlv, diskv, total_failed_entries, ip_log, role_i,
                 err_log_list, pre_retry_log, log_rewrites, cluster, submitted,
                 listing_errors, text_under>>

RemoveTable_Keep(list, table) == list
RemoveTable_Head(list, table) == Tail(list)
\* err_log_list.remove(table) on a text result (line 129)
RemoveTable(list, table) == RemoveFirst(list, table)

\* lines 121-134: the iterator's next table is re-attempted under the current role
RetryAttempt ==
  /\ pc = "retry_attempt"
  /\ LET table == err_log_list[it_i + 1]
         iam_role == ip_log[role_i].instance_profile_arn
         db_name == SplitDot(table.table)[1]
         table_name == SplitDot(table.table)[2]
         path == <<db_name, table_name>> IN
     \E results \in Results(DdlText(db_name, table_name)) :
       /\ Submit(Stmt("retry_ddl", 0, 0, db_name, table_name, iam_role, results))
       /\ it_i' = it_i + 1
       /\ IF results.resultType = "text"
          THEN LET list == RemoveTable(err_log_list, table)
                   \* the element that moved under the iterator is not yielded for
                   \* this role; whether its extraction returns text is the remote's
                   passed == IF it_i + 1 <= Len(list) THEN {<<list[it_i + 1].table, iam_role>>}
                             ELSE {} IN
               /\ err_log_list' = list
               /\ ms_files' = WriteFile(ms_files, path, results.data)
               /\ \E known \in SUBSET passed :
                    text_under' = text_under \cup {<<table.table, iam_role>>} \cup known
               /\ NextTable(list, it_i + 1)
          ELSE /\ UNCHANGED <<err_log_list, ms_files, text_under>>
               /\ NextTable(err_log_list, it_i + 1)
  /\ UNCHANGED <<cfgv, cmdv, impv, crawlv, failed_log, ms_dirs, total_failed_entries, ip_log, role_i,
                 pre_retry_log, role_start, log_rewrites, abort_cause, ctx, ctx_count,
                 cluster, listing_errors>>

\* line 136: os.remove(failed_metastore_log_path)
RemoveFailedLog ==
  /\ pc = "retry_rewrite"
  /\ IF failed_log.exists
     THEN /\ failed_log' = NoLog
          /\ pc' = "retry_write"
          /\ abort_cause' = abort_cause
     ELSE /\ Abort("FileNotFoundError: failed_metastore.log")
          /\ failed_log' = failed_log
  /\ UNCHANGED <<cfgv, cmdv, impv, crawlv, ms_dirs, ms_files, retryv, ctx, ctx_count, cluster,
                 submitted, listing_errors, text_under>>

\* lines 137-141: the failure log is written anew from err_log_list and counted
RewriteFailedLog ==
  /\ pc = "retry_write"
  /\ failed_log' = [exists |-> TRUE, lines |-> err_log_list]
  /\ log_rewrites' = log_rewrites + 1
  /\ pc' = "done"
  /\ UNCHANGED <<cfgv, cmdv, impv, crawlv, ms_dirs, ms_files, total_failed_entries, ip_log, role_i,
                 err_log_list, it_i, pre_retry_log, role_start, abort_cause, ctx,
                 ctx_count, cluster, submitted, listing_errors, text_under>>

\* ---------------------------------------------------------- specifications
Next ==
  \/ Launch
  \/ GetExecutionContext
  \/ RemoveOldLog
  \/ CountDatabases
  \/ SliceDatabases
  \/ ListTables
  \/ CountTables
  \/ SliceTables
  \/ ExtractDdl
  \/ CountFailed
  \/ CheckInstanceProfiles
  \/ EditCluster
  \/ WaitForCluster
  \/ ClusterRestarts
  \/ ClusterRunning
  \/ RetryGetExecutionContext
  \/ RetryAttempt
  \/ RemoveFailedLog
  \/ RewriteFailedLog

Spec == Init /\ [][Next]_vars

\* log_all_databases(cid, ec_id, ms_dir) on a workspace of up to MaxListing databases
InitBatch ==
  /\ pc = "count_dbs"
  /\ entry = "export_hive_metastore"
  /\ abort_cause = ""
  /\ aws \in BOOLEAN
  /\ skip_failed = FALSE
  /\ num_dbs \in 0..MaxListing
  /\ num_tables = [i \in 1..MaxDbs |-> 0]
  /\ ctx = NewContext(1)
  /\ ctx_count = 1
  /\ cluster = SettledCluster
  /\ all_dbs = <<>>
  /\ db_i = 0
  /\ num_of_buckets = 0
  /\ m = 0
  /\ table_names = <<>>
  /\ tbl_i = 0
  /\ failed_log = NoLog
  /\ ms_dirs = {}
  /\ ms_files = <<>>
  /\ total_failed_entries = 0
  /\ ip_log = <<>>
  /\ role_i = 0
  /\ err_log_list = <<>>
  /\ it_i = 0
  /\ pre_retry_log = <<>>
  /\ submitted = <<>>
  /\ listing_errors = 0
  /\ role_start = <<>>
  /\ log_rewrites = 0
  /\ text_under = {}
  /\ CmdIdle
  /\ ImportIdle
  /\ ClustersIdle

NextBatch == CountDatabases \/ SliceDatabases

SpecBatch == InitBatch /\ [][NextBatch]_vars

\* ----------------------------------------- submit_command (clusters.py), by step
MaxPolls == 3
CommandTexts == {<<1>>, <<2>>}

\* every variable of the export at rest while another entry point runs
HiveAtRest(method) ==
  /\ entry = method
  /\ abort_cause = ""
  /\ aws = TRUE
  /\ skip_failed = FALSE
  /\ num_dbs = 0
  /\ num_tables = [i \in 1..MaxDbs |-> 0]
  /\ ctx = NewContext(1)
  /\ ctx_count = 1
  /\ cluster = SettledCluster
  /\ all_dbs = <<>>
  /\ db_i = 0
  /\ num_of_buckets = 0
  /\ m = 0
  /\ table_names = <<>>
  /\ tbl_i = 0
  /\ failed_log = NoLog
  /\ ms_dirs = {}
  /\ ms_files = <<>>
  /\ total_failed_entries = 0
  /\ ip_log = <<>>
  /\ role_i = 0
  /\ err_log_list = <<>>
  /\ it_i = 0
  /\ pre_retry_log = <<>>
  /\ submitted = <<>>
  /\ listing_errors = 0
  /\ role_start = <<>>
  /\ log_rewrites = 0
  /\ text_under = {}

HiveIdle == HiveAtRest("submit_command")

hivev == <<cfgv, crawlv, diskv, retryv, ctx, ctx_count, cluster, submitted,
           listing_errors, text_under>>

\* the loop condition of line 365
IsRunning_RunningOnly(status) == status = "Running"
IsRunning(status) == status = "Running" \/ status = "Queued"

Terminal(status) == status \in {"Finished", "Error"}

\* what /commands/status answers for commandId id: the command's status, with its
\* results once it has finished; an error body without 'status' for no command
StatusResponse(id) ==
  IF id = NoId THEN [status |-> NoStatus, results |-> Absent]
  ELSE remote_cmd

\* the cluster works on the command: Queued, Running, then Finished or Error
CommandProgress ==
  /\ pc \in {"cmd_status", "cmd_loop"}
  /\ \/ /\ remote_cmd.status = "Queued"
        /\ remote_cmd' = [remote_cmd EXCEPT !.status = "Running"]
     \/ /\ remote_cmd.status = "Running"
        /\ \E r \in Results(command) :
             remote_cmd' = [status |-> "Finished", results |-> r]
     \/ /\ remote_cmd.status = "Running"
        /\ remote_cmd' = [status |-> "Error", results |-> ErrorResult]
  /\ UNCHANGED <<hivev, impv, pc, abort_cause, command, com_id, resp, is_running,
                 end_results, status_log, error_log>>

\* lines 349-357: POST /commands/execute; a response without 'id' is only logged
CommandsExecute ==
  /\ pc = "cmd_execute"
  /\ \E has_id \in BOOLEAN :
       IF has_id
       THEN /\ com_id' = <<1>>
            /\ remote_cmd' = [status |-> "Queued", results |-> Absent]
            /\ error_log' = error_log
       ELSE /\ com_id' = NoId
            /\ remote_cmd' = remote_cmd
            /\ error_log' = Append(error_log, "Error: cannot submit command")
  /\ pc' = "cmd_status"
  /\ UNCHANGED <<hivev, impv, abort_cause, command, resp, is_running, end_results,
                 status_log>>

\* resp = self.get('/commands/status', ...); is_running = resp['status']
StatusRequest ==
  LET r == StatusResponse(com_id) IN
    /\ status_log' = Append(status_log, r)
    /\ resp' = r
    /\ IF r.status = NoStatus
       THEN /\ Abort("KeyError: 'status'")
            /\ is_running' = is_running
       ELSE /\ is_running' = r.status
            /\ pc' = "cmd_loop"
            /\ abort_cause' = abort_cause

\* lines 359-362: the first status request, made whatever com_id is
CommandsStatus ==
  /\ pc = "cmd_status"
  /\ StatusRequest
  /\ UNCHANGED <<hivev, impv, command, com_id, remote_cmd, end_results, error_log>>

\* lines 365-368: another status request while the last one said Running or Queued;
\* the command answers Queued or Running to at most MaxPolls requests
CommandsPoll ==
  /\ pc = "cmd_loop"
  /\ IsRunning(is_running)
  /\ Len(status_log) < MaxPolls \/ Terminal(remote_cmd.status)
  /\ StatusRequest
  /\ UNCHANGED <<hivev, impv, command, com_id, remote_cmd, end_results, error_log>>

\* lines 369-372: end_results = resp['results'], logged if an error, returned
CommandsReturn ==
  /\ pc = "cmd_loop"
  /\ ~IsRunning(is_running)
  /\ IF resp.results = Absent
     THEN /\ Abort("KeyError: 'results'")
          /\ UNCHANGED <<end_results, error_log>>
     ELSE /\ end_results' = resp.results
          /\ error_log' = IF resp.results.resultType = "error"
                          THEN Append(error_log, resp.results.summary)
                          ELSE error_log
          /\ pc' = "cmd_returned"
          /\ abort_cause' = abort_cause
  /\ UNCHANGED <<hivev, impv, command, com_id, remote_cmd, resp, is_running, status_log>>

\* submit_command(cid, ec_id, cmd) for a statement of CommandTexts
InitCmd ==
  /\ pc = "cmd_execute"
  /\ HiveIdle
  /\ ImportIdle
  /\ ClustersIdle
  /\ command \in CommandTexts
  /\ com_id = NoId
  /\ remote_cmd = NoCommand
  /\ resp = NoResp
  /\ is_running = NoStatus
  /\ end_results = Absent
  /\ status_log = <<>>
  /\ error_log = <<>>

SubmitCommand == CommandsExecute \/ CommandsStatus \/ CommandsPoll \/ CommandsReturn

NextCmd ==
  \/ CommandsExecute
  \/ CommandsStatus
  \/ CommandsPoll
  \/ CommandsReturn
  \/ CommandProgress

\* the client is one sequential process that keeps running: each enabled step of
\* submit_command is eventually taken; the cluster owes nothing
SpecCmd == InitCmd /\ [][NextCmd]_vars /\ WF_vars(SubmitCommand)

\* ------------------------------------------- import_hive_metastore (hive.py)
MaxEntries == 2
MaxImportFiles == 2
MaxImportErrors == 1

\* the orders os.listdir may give the names of a directory in
Listings(names) ==
  {s \in [1..Cardinality(names) -> names] : \A a, b \in DOMAIN s : a # b => s[a] # s[b]}

\* db_name.replace('\n', '')
Newline == 10
StripNewlines(name) == SelectSeq(name, LAMBDA ch : ch # Newline)

\* the table files of metastore/<db>
TableFiles(db) == {p[2] : p \in {q \in DOMAIN ms_files : q[1] = db}}

\* the characters of the format string of get_spark_ddl and the carriage return
Space == 32
Quote == 34
LParen == 40
RParen == 41
CR == 13
\* the text "spark.sql" of the format string, as one token
SparkSql == 100

\* fp.read() of a file opened with mode "r" (newline=None): "\r\n" and a lone "\r"
\* reach the caller as "\n"
RECURSIVE ReadText(_)
ReadText(t) ==
  IF t = <<>> THEN <<>>
  ELSE IF t[1] = CR
  THEN IF Len(t) > 1 /\ t[2] = Newline
       THEN <<Newline>> \o ReadText(SubSeq(t, 3, Len(t)))
       ELSE <<Newline>> \o ReadText(Tail(t))
  ELSE <<t[1]>> \o ReadText(Tail(t))

GetSparkDdl_Bare(table_ddl) == table_ddl
\* 'spark.sql(""" {0} """)'.format(table_ddl)
GetSparkDdl(table_ddl) ==
  <<SparkSql, LParen, Quote, Quote, Quote, Space>> \o table_ddl
     \o <<Space, Quote, Quote, Quote, RParen>>

\* apply_table_ddl up to its submit_command: the statement made of the file's text
ApplyTableDdl(content) == GetSparkDdl(ReadText(content))

\* what an export may have left in metastore/<db>/<table>: the text of the table
\* and, for the first table of the first database, also a text with "\r\n" and "\r"
\* inside (a comment typed on another system) or nothing (the extraction returned
\* an error)
StoredTexts(db, tbl) ==
  IF db = DbName(1) /\ tbl = TableName(1)
  THEN {DdlText(db, tbl), DdlText(db, tbl) \o <<CR, Newline>> \o tbl \o <<CR>> \o db, <<>>}
  ELSE {DdlText(db, tbl)}

ImportErrors == Cardinality({k \in DOMAIN submitted : submitted[k].resultType = "error"})
ImportResults(d) == IF ImportErrors < MaxImportErrors THEN Results(d) ELSE {TextResult(d)}

\* "for db in db_list" moves to its next entry, or the import is over
NextEntry(list, i) ==
  IF i < Len(list) THEN pc' = "imp_create_db" /\ imp_i' = i + 1
  ELSE pc' = "done" /\ imp_i' = i

\* "for x in tables" moves to its next file, or back to the loop over db_list
NextTableFile(list, x) ==
  IF x < Len(list) THEN pc' = "imp_apply" /\ imp_x' = x + 1 /\ imp_i' = imp_i
  ELSE imp_x' = x /\ NextEntry(db_list, imp_i)

\* line 189: launch_cluster()
ImportLaunch ==
  /\ pc = "imp_start"
  /\ \E ok \in BOOLEAN :
       IF ok THEN pc' = "imp_get_ec" /\ abort_cause' = abort_cause
       ELSE Abort("Exception: could not launch cluster")
  /\ UNCHANGED <<hivev, cmdv, ms_plain, replayed, db_list, imp_i, tables, imp_x>>

\* line 191: get_execution_context(cid)
ImportGetExecutionContext ==
  /\ pc = "imp_get_ec"
  /\ ContextCreate("imp_listdir")
  /\ UNCHANGED <<cfgv, crawlv, diskv, retryv, cluster, submitted, listing_errors,
                 text_under, cmdv, ms_plain, replayed, db_list, imp_i, tables, imp_x>>

\* line 193: db_list = os.listdir(ms_local_dir), directories and plain files alike
ImportListDir ==
  /\ pc = "imp_listdir"
  /\ \E list \in Listings(ms_dirs \cup ms_plain) :
       /\ db_list' = list
       /\ NextEntry(list, 0)
  /\ UNCHANGED <<hivev, cmdv, abort_cause, ms_plain, replayed, tables, imp_x>>

NotADatabase_Raise(db) ==
  /\ Abort("Error: Only databases should exist at this level")
  /\ UNCHANGED <<error_log, imp_i>>
\* lines 209-210: the entry is logged and the loop goes on
NotADatabase(db) ==
  /\ error_log' = Append(error_log, [msg |-> "Error: Only databases should exist at this level",
                                     db |-> db])
  /\ NextEntry(db_list, imp_i)
  /\ abort_cause' = abort_cause

\* lines 195-201 and 209-210: create_database_db(db) for the entry, whatever it
\* is, then the os.path.isdir test
ImportCreateDatabase ==
  /\ pc = "imp_create_db"
  /\ LET db == db_list[imp_i] IN
     \E results \in ImportResults(<<>>) :
       /\ Submit(Stmt("create_db", 0, 0, StripNewlines(db), <<>>, cluster.role, results))
       /\ IF db \in ms_dirs
          THEN /\ \E list \in Listings(TableFiles(db)) :
                    /\ tables' = list
                    /\ NextTableFile(list, 0)
               /\ UNCHANGED <<error_log, abort_cause>>
          ELSE /\ NotADatabase(db)
               /\ UNCHANGED <<tables, imp_x>>
  /\ UNCHANGED <<cfgv, crawlv, diskv, retryv, ctx, ctx_count, cluster, listing_errors,
                 text_under, command, com_id, remote_cmd, resp, is_running, end_results,
                 status_log, ms_plain, replayed, db_list>>

\* lines 202-208: apply_table_ddl on metastore/<db>/<x>, the file read and wrapped
\* as lines 180-185 do
ImportApplyDdl ==
  /\ pc = "imp_apply"
  /\ LET db == db_list[imp_i]
         x == tables[imp_x] IN
     \E results \in ImportResults(<<>>) :
       /\ Submit(Stmt("apply_ddl", 0, 0, db, x, cluster.role, results))
       /\ replayed' = Append(replayed, [db |-> db, tbl |-> x,
                                        statement |-> ApplyTableDdl(ms_files[<<db, x>>])])
       /\ NextTableFile(tables, imp_x)
  /\ UNCHANGED <<cfgv, crawlv, diskv, retryv, ctx, ctx_count, cluster, listing_errors,
                 text_under, cmdv, abort_cause, ms_plain, db_list, tables>>

\* import_hive_metastore(ms_dir) on a local metastore directory of up to MaxEntries
\* entries, each a database directory of table files or a plain file
InitImport ==
  /\ pc = "imp_start"
  /\ entry = "import_hive_metastore"
  /\ abort_cause = ""
  /\ aws \in BOOLEAN
  /\ skip_failed = FALSE
  /\ num_dbs = 0
  /\ num_tables = [i \in 1..MaxDbs |-> 0]
  /\ ctx = NewContext(0)
  /\ ctx_count = 0
  /\ cluster = SettledCluster
  /\ all_dbs = <<>>
  /\ db_i = 0
  /\ num_of_buckets = 0
  /\ m = 0
  /\ table_names = <<>>
  /\ tbl_i = 0
  /\ failed_log \in {NoLog, [exists |-> TRUE, lines |-> <<StaleLine>>]}
  /\ \E n \in 0..MaxEntries :
       /\ ms_dirs \in SUBSET {DbName(i) : i \in 1..n}
       /\ ms_plain = {DbName(i) : i \in 1..n} \ ms_dirs
  /\ \E files \in [ms_dirs -> 0..MaxImportFiles] :
       LET paths == {<<db, TableName(j)>> : db \in ms_dirs, j \in 1..MaxImportFiles}
           present == {p \in paths : p[2][1] <= files[p[1]]} IN
       /\ Cardinality(present) <= MaxImportFiles
       /\ ms_files \in {f \in [present -> UNION {StoredTexts(p[1], p[2]) : p \in present}] :
                          \A p \in present : f[p] \in StoredTexts(p[1], p[2])}
  /\ total_failed_entries = 0
  /\ ip_log = <<>>
  /\ role_i = 0
  /\ err_log_list = <<>>
  /\ it_i = 0
  /\ pre_retry_log = <<>>
  /\ submitted = <<>>
  /\ listing_errors = 0
  /\ role_start = <<>>
  /\ log_rewrites = 0
  /\ text_under = {}
  /\ CmdIdle
  /\ db_list = <<>>
  /\ imp_i = 0
  /\ tables = <<>>
  /\ imp_x = 0
  /\ replayed = <<>>
  /\ ClustersIdle

NextImport ==
  \/ ImportLaunch
  \/ ImportGetExecutionContext
  \/ ImportListDir
  \/ ImportCreateDatabase
  \/ ImportApplyDdl

SpecImport == InitImport /\ [][NextImport]_vars

\* ------------------------------------------------- export_database (hive.py)
\* line 89: launch_cluster(iam_role); a new cluster on AWS is created with the
\* role, an existing cluster of that name is returned as it is
DbLaunch ==
  /\ pc = "dbx_start"
  /\ \E ok \in BOOLEAN, existing \in BOOLEAN, iam_role \in {NoRole, RoleName(1)} :
       IF ok
       THEN /\ pc' = "dbx_get_ec"
            /\ abort_cause' = abort_cause
            /\ cluster' = IF aws /\ ~existing THEN [cluster EXCEPT !.role = iam_role]
                          ELSE cluster
       ELSE /\ ~existing
            /\ Abort("Exception: could not launch cluster")
            /\ cluster' = cluster
  /\ UNCHANGED <<cfgv, cmdv, impv, crawlv, diskv, retryv, ctx, ctx_count, submitted,
                 listing_errors, text_under>>

\* line 93: get_execution_context(cid)
DbGetExecutionContext ==
  /\ pc = "dbx_get_ec"
  /\ ContextCreate("dbx_cleanup")
  /\ UNCHANGED <<cfgv, cmdv, impv, crawlv, diskv, retryv, cluster, submitted,
                 listing_errors, text_under>>

\* lines 95-99: the old failure log is removed, metastore/<db_name> is made and
\* log_all_tables(db_name, ...) is entered
DbRemoveOldLog ==
  /\ pc = "dbx_cleanup"
  /\ \E db_name \in {DbName(i) : i \in 1..MaxDbs} :
       /\ failed_log' = NoLog
       /\ ms_dirs' = ms_dirs \cup {db_name}
       /\ all_dbs' = <<db_name>>
       /\ db_i' = 1
  /\ pc' = "list_tables"
  /\ UNCHANGED <<cfgv, cmdv, impv, retryv, num_of_buckets, m, table_names, tbl_i,
                 ms_files, abort_cause, ctx, ctx_count, cluster, submitted,
                 listing_errors, text_under>>

InitDb == Start("dbx_start", "export_database")

\* --------------------------------------------------- every entry point
InitAny == Init \/ InitDb \/ InitImport

NextAny ==
  \/ Next
  \/ DbLaunch
  \/ DbGetExecutionContext
  \/ DbRemoveOldLog
  \/ NextImport

SpecAny == InitAny /\ [][NextAny]_vars

\* --------------------- retry_failed_metastore_export called on its own
\* what an export leaves behind when the first k tables of database 1 failed:
\* k lines in the failure log and k empty files
FailedLogOf(k) ==
  [exists |-> TRUE,
   lines |-> [j \in 1..k |-> LogLine(ErrorResult, FormatTable(DbName(1), TableName(j)))]]
FilesOf(k) == [p \in {<<DbName(1), TableName(j)>> : j \in 1..k} |-> <<>>]

\* retry_failed_metastore_export(cid, failed_metastore_log_path) after an export
\* that logged up to MaxFailed failures, on either kind of deployment
InitRetry ==
  /\ pc = "retry_check"
  /\ entry = "retry_failed_metastore_export"
  /\ abort_cause = ""
  /\ aws \in BOOLEAN
  /\ skip_failed = FALSE
  /\ num_dbs = 1
  /\ num_tables \in [1..MaxDbs -> 0..MaxFailed]
  /\ \A i \in 2..MaxDbs : num_tables[i] = 0
  /\ ctx = NewContext(0)
  /\ ctx_count = 0
  /\ cluster = SettledCluster
  /\ all_dbs = <<>>
  /\ db_i = 0
  /\ num_of_buckets = 0
  /\ m = 0
  /\ table_names = <<>>
  /\ tbl_i = 0
  /\ failed_log = FailedLogOf(num_tables[1])
  /\ ms_dirs = {DbName(1)}
  /\ ms_files = FilesOf(num_tables[1])
  /\ total_failed_entries = 0
  /\ ip_log = <<>>
  /\ role_i = 0
  /\ err_log_list = <<>>
  /\ it_i = 0
  /\ pre_retry_log = <<>>
  /\ submitted = <<>>
  /\ listing_errors = 0
  /\ role_start = <<>>
  /\ log_rewrites = 0
  /\ text_under = {}
  /\ CmdIdle
  /\ ImportIdle
  /\ ClustersIdle

NextRetry ==
  \/ CheckInstanceProfiles
  \/ EditCluster
  \/ WaitForCluster
  \/ ClusterRestarts
  \/ ClusterRunning
  \/ RetryGetExecutionContext
  \/ RetryAttempt
  \/ RemoveFailedLog
  \/ RewriteFailedLog

SpecRetry == InitRetry /\ [][NextRetry]_vars

\* ------------------------------------------------------ reading the history
Last(seq) == seq[Len(seq)]
Have(kind) == {k \in DOMAIN submitted : submitted[k].kind = kind}
KeyOf(stmt) == FormatTable(stmt.db, stmt.tbl)
Keys(lines) == {lines[k].table : k \in DOMAIN lines}

\* retry attempts for "db.table" that returned text
RetryText(key) ==
  {k \in Have("retry_ddl") : KeyOf(submitted[k]) = key /\ submitted[k].resultType = "text"}
\* crawl or retry attempts for a file's table that returned text
AnyText(path) ==
  {k \in Have("ddl") \cup Have("retry_ddl") :
     /\ <<submitted[k].db, submitted[k].tbl>> = path
     /\ submitted[k].resultType = "text"}

\* the retry went through all roles and rewrote the log
RetryPassDone == pc = "done" /\ log_rewrites > 0

CeilDiv(n, b) == (n + b - 1) \div b

\* every table of every database of the workspace, in enumeration order
RECURSIVE TablesFrom(_)
TablesFrom(i) ==
  IF i > num_dbs THEN <<>>
  ELSE [j \in 1..num_tables[i] |-> <<DbName(i), TableName(j)>>] \o TablesFrom(i + 1)
AllTables == TablesFrom(1)

\* the crawl's 'show create table' statements, in submission order
RECURSIVE CrawlAttemptsUpTo(_)
CrawlAttemptsUpTo(k) ==
  IF k = 0 THEN <<>>
  ELSE IF submitted[k].kind = "ddl"
  THEN Append(CrawlAttemptsUpTo(k - 1), <<submitted[k].db, submitted[k].tbl>>)
  ELSE CrawlAttemptsUpTo(k - 1)
CrawlAttempts == CrawlAttemptsUpTo(Len(submitted))

IsPrefix(a, b) == Len(a) <= Len(b) /\ a = SubSeq(b, 1, Len(a))

AfterCrawl == {"count_failed", "retry_check", "retry_role", "retry_ec", "retry_attempt",
               "retry_rewrite", "done"}

\* ------------------------------------------------------------------ claims

\* C1: after a completed retry pass every table in the rewritten failure log was in
\* the pre-retry log and had no retry attempt that returned text, and every table
\* of the pre-retry log missing from it had a retry attempt that returned text.
C1_RewrittenLog ==
  RetryPassDone =>
    /\ \A k \in DOMAIN failed_log.lines :
         /\ failed_log.lines[k] \in Range(pre_retry_log)
         /\ RetryText(failed_log.lines[k].table) = {}
    /\ \A k \in DOMAIN pre_retry_log :
         pre_retry_log[k].table \notin Keys(failed_log.lines)
           => RetryText(pre_retry_log[k].table) # {}
    /\ Len(failed_log.lines) <= Len(pre_retry_log)

C1_Witness ==
  /\ RetryPassDone
  /\ Len(pre_retry_log) >= 2
  /\ failed_log.lines # <<>>
  /\ Len(failed_log.lines) < Len(pre_retry_log)

\* C2 (as claimed): when a role's turn is over, every table that was in the failing
\* list when the turn started has had a 'show create table' submitted under that role.
C2_EveryFailingTableAttempted ==
  (pc \in {"retry_role", "retry_rewrite"} /\ role_i >= 1) =>
    \A k \in DOMAIN role_start :
      \E a \in Have("retry_ddl") :
        /\ KeyOf(submitted[a]) = role_start[k].table
        /\ submitted[a].role = ip_log[role_i].instance_profile_arn

\* C3 (as claimed): after the export with retry, a table of the pre-retry failure log
\* whose extraction returns text under some registered role is absent from the
\* failure log and its file holds the DDL text.
C3_ExtractableTablesRecovered ==
  RetryPassDone =>
    \A k \in DOMAIN pre_retry_log :
      LET key == pre_retry_log[k].table
          path == <<SplitDot(key)[1], SplitDot(key)[2]>> IN
      (\E r \in DOMAIN ip_log : <<key, ip_log[r].instance_profile_arn>> \in text_under)
        => /\ key \notin Keys(failed_log.lines)
           /\ path \in DOMAIN ms_files
           /\ ms_files[path] = DdlText(path[1], path[2])

\* C4 (as claimed): for a listing of N names, exactly ceil(N / batch_size) slice
\* statements are submitted, the i-th for [batch_size*i, batch_size*(i+1)).
C4_CeilSlices ==
  (pc \in {"list_tables", "count_failed"}) =>
    LET slices == SelectSeq(submitted, LAMBDA st : st.kind = "slice_dbs") IN
    /\ Len(slices) = CeilDiv(num_dbs, batch_size)
    /\ \A i \in DOMAIN slices :
         slices[i].lo = batch_size * (i - 1) /\ slices[i].hi = batch_size * i

C6_CrawlFailureLog ==
  pc = "count_failed" =>
    /\ \A a \in Have("ddl") :
         LET st == submitted[a]
             path == <<st.db, st.tbl>> IN
         IF st.resultType = "text"
         THEN /\ KeyOf(st) \notin Keys(failed_log.lines)
              /\ path \in DOMAIN ms_files
              /\ ms_files[path] = DdlText(st.db, st.tbl)
         ELSE /\ Cardinality({k \in DOMAIN failed_log.lines :
                                failed_log.lines[k].table = KeyOf(st)}) = 1
              /\ LogLine(ErrorResult, KeyOf(st)) \in Range(failed_log.lines)
    /\ \A k \in DOMAIN failed_log.lines :
         \E a \in Have("ddl") :
           /\ KeyOf(submitted[a]) = failed_log.lines[k].table
           /\ submitted[a].resultType # "text"

C6_Witness ==
  /\ pc = "count_failed"
  /\ \E a, b \in Have("ddl") :
       submitted[a].resultType = "text" /\ submitted[b].resultType # "text"

\* C7 (as claimed): at every point of an export a file metastore/<db>/<table> exists
\* only if some 'show create table' attempt for that table returned text.
C7_FilesOnlyForExtractedTables ==
  \A path \in DOMAIN ms_files : AnyText(path) # {}

\* C8 (as claimed): an error result of a remote statement never aborts the export.
C8_ErrorResultsDoNotAbort ==
  ~(/\ pc = "aborted"
    /\ abort_cause \in {"ValueError: cannot identify number of databases",
                        "KeyError: 'data'"})

\* C9: a non-text result of a 'show create table' never stops the crawl.  While the
\* listing statements return text, the crawl's 'show create table' statements are
\* the tables of the enumerated databases in enumeration order, all of them once
\* the export is at the failure count or later, whatever the earlier results were;
\* and no run is aborted by the result of a 'show create table'.
C9_TableFailuresDoNotStopCrawl ==
  /\ (listing_errors = 0 /\ pc \in AfterCrawl) => CrawlAttempts = AllTables
  /\ (listing_errors = 0 /\ pc \notin AfterCrawl) => IsPrefix(CrawlAttempts, AllTables)
  /\ (abort_cause \in {"ValueError: cannot identify number of databases", "KeyError: 'data'"})
       => Last(submitted).kind # "ddl"

C9_Witness ==
  /\ pc = "count_failed"
  /\ listing_errors = 0
  /\ CrawlAttempts = AllTables
  /\ \E a, b \in Have("ddl") : a < b /\ submitted[a].resultType # "text"

\* C10 (as claimed): instance profiles are loaded for a retry, the cluster is
\* reconfigured and the failure log rewritten only when the failure log has at least
\* one entry, the deployment is AWS and skip-failed is not set.
C10_RetryOnlyWithFailures ==
  (\/ cluster.edits > 0
   \/ log_rewrites > 0
   \/ pc \in {"retry_role", "retry_ec", "retry_attempt", "retry_rewrite"})
    => (total_failed_entries >= 1 /\ aws /\ ~skip_failed)

\* --------------------------------------------------------- submit_command
NoCommandId == pc # "cmd_execute" /\ com_id = NoId

\* C11 (as claimed): when /commands/execute returns no command id, submit_command
\* fails at once: no /commands/status request is made and nothing is returned.
C11_NoIdIsSubmissionError ==
  NoCommandId => /\ pc = "aborted"
                 /\ status_log = <<>>
                 /\ end_results = Absent

C12_Polling ==
  /\ \A k \in 1..(Len(status_log) - 1) : IsRunning(status_log[k].status)
  /\ com_id # NoId => pc # "aborted"
  /\ pc = "cmd_returned" =>
       /\ resp = Last(status_log)
       /\ ~IsRunning(resp.status)
       /\ end_results = resp.results
       /\ end_results.resultType = "error" => Last(error_log) = end_results.summary

\* C12: submit_command polls /commands/status again only after a Queued or Running
\* answer, returns the results of the first answer that is neither, text or error
\* alike, without raising; and once the command is Finished or Error it returns.
C12_PollUntilTerminal ==
  /\ []C12_Polling
  /\ Terminal(remote_cmd.status) ~> (pc = "cmd_returned")

C12_Witness ==
  /\ pc = "cmd_returned"
  /\ Len(status_log) = 3
  /\ status_log[1].status = "Queued"
  /\ status_log[2].status = "Running"
  /\ end_results.resultType = "error"

\* --------------------------------------------------- import_hive_metastore
Created(db) == \E k \in Have("create_db") : submitted[k].db = db
Applied(db, x) == \E k \in Have("apply_ddl") : submitted[k].db = db /\ submitted[k].tbl = x
ImportOver == pc = "done" /\ imp_i = Len(db_list)

\* C14 (as claimed): import_hive_metastore submits a create-database statement for
\* the directory entries of the metastore directory and for no plain file.
C14_CreateOnlyForDirectories ==
  /\ \A k \in Have("create_db") : submitted[k].db \in ms_dirs
  /\ ImportOver => \A db \in ms_dirs : Created(db)

\* C15: a plain file at the database level is logged as an error and the import
\* goes on: nothing raises once the context exists, and when the import is over
\* every directory listed after the file has its database created and every one
\* of its table files applied.
C15_PlainFileDoesNotAbort ==
  /\ ctx_count > 0 => pc # "aborted"
  /\ ImportOver =>
       \A i \in DOMAIN db_list :
         db_list[i] \in ms_plain =>
           /\ \E e \in DOMAIN error_log : error_log[e].db = db_list[i]
           /\ \A j \in DOMAIN db_list :
                (j > i /\ db_list[j] \in ms_dirs) =>
                  /\ Created(db_list[j])
                  /\ \A x \in TableFiles(db_list[j]) : Applied(db_list[j], x)

C15_Witness ==
  /\ ImportOver
  /\ Len(db_list) = 2
  /\ db_list[1] \in ms_plain
  /\ db_list[2] \in ms_dirs
  /\ Cardinality(TableFiles(db_list[2])) = 2

\* ------------------------------------------------------ the entry context
SessionError == pc = "aborted" /\ abort_cause = "Exception: Remote session error"
BeforeContext == pc \in {"start", "get_ec", "dbx_start", "dbx_get_ec", "imp_start", "imp_get_ec"}
DiskAndCommands == <<failed_log, ms_dirs, ms_files, ms_plain, submitted>>

C13_NothingBeforeContext ==
  /\ BeforeContext => submitted = <<>> /\ ctx_count = 0
  /\ (~BeforeContext /\ pc # "aborted") => ctx_count > 0 /\ ctx.id > 0
  /\ (SessionError /\ ctx_count = 0) => submitted = <<>>

C13_ContextStep ==
  /\ BeforeContext => UNCHANGED DiskAndCommands
  /\ SessionError' => UNCHANGED DiskAndCommands
  /\ pc # "aborted"

\* C13: in export_hive_metastore, export_database and import_hive_metastore alike,
\* nothing is submitted and neither the failure log nor a metastore file or
\* directory changes until the context request is answered; a response without
\* an id raises in that very step, which submits and changes nothing, no step
\* follows the raise, and no later step runs without a context id.
C13_SessionErrorAborts == []C13_NothingBeforeContext /\ [][C13_ContextStep]_vars

C13_Witness ==
  /\ SessionError
  /\ ctx_count = 0
  /\ entry = "export_hive_metastore"
  /\ failed_log = [exists |-> TRUE, lines |-> <<StaleLine>>]

\* ------------------------------------------------------- the retry pass
Retries == Have("retry_ddl")
RoleIndex(role) == CHOOSE i \in DOMAIN ip_log : ip_log[i].instance_profile_arn = role
RoleOf(i) == ip_log[i].instance_profile_arn

C16_RolesAndContexts ==
  /\ \A k, l \in Retries :
       /\ k < l => RoleIndex(submitted[k].role) <= RoleIndex(submitted[l].role)
       /\ (submitted[k].ec = submitted[l].ec) <=> (submitted[k].role = submitted[l].role)
  /\ \A k \in Retries : \A j \in DOMAIN submitted :
       submitted[j].kind # "retry_ddl" => submitted[k].ec # submitted[j].ec
  /\ pc \in {"retry_wait", "retry_ec"} =>
       /\ cluster.role = RoleOf(role_i) /\ cluster.edits = role_i
       /\ \A k \in DOMAIN submitted : submitted[k].ec <= ctx.id
       /\ \A k \in Retries : submitted[k].role # RoleOf(role_i)
  /\ pc = "retry_attempt" =>
       /\ cluster.role = RoleOf(role_i) /\ cluster.edits = role_i
       /\ \A k \in DOMAIN submitted :
            submitted[k].ec = ctx.id =>
              submitted[k].kind = "retry_ddl" /\ submitted[k].role = RoleOf(role_i)

C16_RetryStep ==
  /\ cluster'.edits # cluster.edits =>
       /\ pc = "retry_role" /\ pc' = "retry_wait"
       /\ role_i' = role_i + 1 /\ cluster'.role = RoleOf(role_i + 1)
  /\ (pc = "retry_wait" /\ pc' # pc) => pc' = "retry_ec" /\ cluster.state = "RUNNING"
  /\ (pc = "retry_ec" /\ pc' # pc) =>
       \/ pc' = "aborted"
       \/ ctx'.id > ctx.id /\ pc' \in {"retry_attempt", "retry_role", "retry_rewrite"}
  /\ (Len(submitted') > Len(submitted) /\ Last(submitted').kind = "retry_ddl") =>
       /\ pc = "retry_attempt"
       /\ Last(submitted').ec = ctx.id
       /\ Last(submitted').role = cluster.role

\* C16: the retry takes the roles in the order of the instance-profile listing; for
\* each role the edit request comes first, then wait_for_cluster returns on a
\* RUNNING answer, then a new execution context is created, then the attempts are
\* submitted; the attempts of a role all name the context created in that role's
\* turn, which no statement of the crawl or of another role names.
C16_RoleOrder == []C16_RolesAndContexts /\ [][C16_RetryStep]_vars

C16_Witness ==
  /\ pc = "done"
  /\ \E k, l \in Retries :
       /\ k < l
       /\ submitted[k].role = RoleName(1) /\ submitted[k].ec = 2
       /\ submitted[l].role = RoleName(2) /\ submitted[l].ec = 3

FailingKeys == {err_log_list[i].table : i \in DOMAIN err_log_list}

C17_OnceEach ==
  /\ \A k, l \in Retries :
       /\ (k # l /\ submitted[k].role = submitted[l].role) => KeyOf(submitted[k]) # KeyOf(submitted[l])
       /\ (k < l /\ submitted[k].resultType = "text") => KeyOf(submitted[k]) # KeyOf(submitted[l])
  /\ \A k \in Retries : submitted[k].resultType = "text" => KeyOf(submitted[k]) \notin FailingKeys
  /\ \A i, j \in DOMAIN ip_log : i # j => RoleOf(i) # RoleOf(j)
  /\ cluster.edits <= Len(ip_log)

C17_EditStep ==
  cluster'.edits # cluster.edits =>
    /\ cluster'.edits = cluster.edits + 1
    /\ cluster'.role = RoleOf(cluster'.edits)

\* C17: a retry pass attempts no (role, table) pair twice, sends one edit request
\* per listed role, each for a role not put on the cluster before, and a table
\* whose attempt returned text is out of the failing list from that step on and
\* is never attempted again, under that role or a later one.
C17_SinglePass == []C17_OnceEach /\ [][C17_EditStep]_vars

C17_Witness ==
  /\ pc = "done"
  /\ cluster.edits = 2
  /\ \E k, l \in Retries :
       /\ submitted[k].role = RoleName(1) /\ submitted[k].resultType = "text"
       /\ submitted[l].role = RoleName(2) /\ submitted[l].resultType = "error"

C18_SettledStep ==
  /\ (pc = "retry_wait" /\ pc' = "retry_ec") => ~cluster'.pending
  /\ (Len(submitted') > Len(submitted) /\ Last(submitted').kind = "retry_ddl") =>
       ~cluster.pending /\ cluster.state = "RUNNING"

\* C18 (as claimed): edit_cluster returns only once the edit has taken effect and
\* the cluster reports RUNNING again, so no attempt is submitted while the cluster
\* still runs under the previous role or is restarting.
C18_AttemptsAfterReconfiguration == [][C18_SettledStep]_vars

InRetryPass ==
  pc \in {"retry_role", "retry_wait", "retry_ec", "retry_attempt", "retry_rewrite", "retry_write"}

\* C19 (as claimed): at every step of retry_failed_metastore_export, each table
\* that has not been re-extracted yet is still listed in failed_metastore.log on
\* disk, so a process killed there loses no failing table.
C19_FailingTablesStayLogged ==
  InRetryPass =>
    \A k \in DOMAIN pre_retry_log :
      RetryText(pre_retry_log[k].table) = {} =>
        /\ failed_log.exists
        /\ pre_retry_log[k].table \in Keys(failed_log.lines)

NoProfileAvailable == pc # "retry_check" /\ (~aws \/ ip_log = <<>>)

\* C20 (as claimed): when retry_failed_metastore_export has no instance profile to
\* use, because the registry lists none or the deployment is not on AWS, it
\* returns normally having edited no cluster, opened no context, submitted
\* nothing and left the failure log and the DDL files as they were.
C20_NoProfileSkipsRetry ==
  NoProfileAvailable =>
    /\ pc = "done"
    /\ cluster = SettledCluster
    /\ ctx_count = 0
    /\ submitted = <<>>
    /\ failed_log = FailedLogOf(num_tables[1])
    /\ ms_files = FilesOf(num_tables[1])

\* ------------------------------ an export that finds the log of an earlier run
InitStale == (Init \/ InitDb) /\ failed_log.exists

NextStale ==
  \/ Next
  \/ DbLaunch
  \/ DbGetExecutionContext
  \/ DbRemoveOldLog

SpecStale == InitStale /\ [][NextStale]_vars

\* the crawl of export_hive_metastore or export_database has ended
CrawlOver ==
  \/ entry = "export_hive_metastore" /\ pc = "count_failed"
  \/ entry = "export_database" /\ pc = "done"

\* C21: in export_hive_metastore and export_database, once the first table has been
\* attempted the failure log holds no record left by an earlier run, and when the
\* crawl has ended every record in it is the record of a table attempt of this run
\* that returned a non-text result.
C21_OnlyThisRun ==
  /\ Have("ddl") # {} => StaleLine \notin Range(failed_log.lines)
  /\ CrawlOver =>
       \A k \in DOMAIN failed_log.lines :
         \E a \in Have("ddl") :
           /\ submitted[a].resultType # "text"
           /\ failed_log.lines[k] = LogLine(ErrorResult, KeyOf(submitted[a]))

\* a crawl that began with a log of an earlier run, failed on the very table that
\* log named, and has ended
C21_Witness ==
  /\ CrawlOver
  /\ \E a \in Have("ddl") :
       /\ submitted[a].resultType # "text"
       /\ KeyOf(submitted[a]) = StaleLine.table
  /\ failed_log.exists

\* the text between the opening 'spark.sql(""" ' and the closing ' """)' of a statement
IsWrapped(stmt) ==
  /\ Len(stmt) >= 11
  /\ SubSeq(stmt, 1, 6) = <<SparkSql, LParen, Quote, Quote, Quote, Space>>
  /\ SubSeq(stmt, Len(stmt) - 4, Len(stmt)) = <<Space, Quote, Quote, Quote, RParen>>
Wrapped(stmt) == SubSeq(stmt, 7, Len(stmt) - 5)

\* a text with every line end ("\r\n", "\r", "\n") written as "\n"
LineEndsAsNewline(t) ==
  LET kept == {i \in 1..Len(t) : ~(t[i] = Newline /\ i > 1 /\ t[i - 1] = CR)}
      at(k) == CHOOSE i \in kept : Cardinality({j \in kept : j <= i}) = k
  IN [k \in 1..Cardinality(kept) |-> IF t[at(k)] = CR THEN Newline ELSE t[at(k)]]

ReplaysOf(path) == {k \in DOMAIN replayed : <<replayed[k].db, replayed[k].tbl>> = path}

\* every apply_table_ddl statement comes after the CREATE DATABASE statement of its
\* database, no table file is replayed twice, and a finished import has replayed
\* every table file
C22_OncePerFileAfterCreate ==
  /\ Len(replayed) = Cardinality(Have("apply_ddl"))
  /\ \A a \in Have("apply_ddl") :
       \E c \in Have("create_db") : c < a /\ submitted[c].db = StripNewlines(submitted[a].db)
  /\ \A p \in DOMAIN ms_files : Cardinality(ReplaysOf(p)) <= 1
  /\ \A k \in DOMAIN replayed : <<replayed[k].db, replayed[k].tbl>> \in DOMAIN ms_files
  /\ ImportOver => \A p \in DOMAIN ms_files : Cardinality(ReplaysOf(p)) = 1

\* C22 (as claimed): import_hive_metastore submits exactly one statement for every
\* table file, after the CREATE DATABASE statement of its database, and the
\* statement is the file's text, unchanged, between 'spark.sql(""" ' and ' """)'.
C22_StoredTextUnchanged ==
  /\ C22_OncePerFileAfterCreate
  /\ \A k \in DOMAIN replayed :
       /\ IsWrapped(replayed[k].statement)
       /\ Wrapped(replayed[k].statement) = ms_files[<<replayed[k].db, replayed[k].tbl>>]

\* C22: import_hive_metastore submits exactly one statement for every table file,
\* after the CREATE DATABASE statement of its database, and the statement is the
\* file's text with its line ends read as "\n", between 'spark.sql(""" ' and ' """)'.
C22_StoredTextReplayed ==
  /\ C22_OncePerFileAfterCreate
  /\ \A k \in DOMAIN replayed :
       /\ IsWrapped(replayed[k].statement)
       /\ Wrapped(replayed[k].statement) =
            LineEndsAsNewline(ms_files[<<replayed[k].db, replayed[k].tbl>>])

\* a finished import of two table files, one of them with "\r" in its text
C22_Witness ==
  /\ ImportOver
  /\ Len(replayed) = 2
  /\ \E k \in DOMAIN replayed : CR \in Range(ms_files[<<replayed[k].db, replayed[k].tbl>>])
  /\ \E k \in DOMAIN replayed :
       /\ ms_files[<<replayed[k].db, replayed[k].tbl>>] # <<>>
       /\ Wrapped(replayed[k].statement) = ms_files[<<replayed[k].db, replayed[k].tbl>>]

\* ------------------------------------- remove_automated_clusters (clusters.py)
MaxClusters == 2

\* what a method of clusters.py that drives no hive run leaves alone
hivequiet == <<hivecfg, crawlv, diskv, retryv, cmdv, impv, ctx, ctx_count, cluster,
               submitted, listing_errors, text_under>>
hiverest == <<hivequiet, abort_cause>>

\* the characters of a cluster name, as their codes
IsDigit(ch) == ch \in 48..57
\* "job-", "-run-" and ml_model_pattern = "mlflow-model-"
JobDash == <<106, 111, 98, 45>>
DashRunDash == <<45, 114, 117, 110, 45>>
ml_model_pattern == <<109, 108, 102, 108, 111, 119, 45, 109, 111, 100, 101, 108, 45>>

\* the literal lit stands in s from position i on
LitAt(s, i, lit) == i + Len(lit) - 1 <= Len(s) /\ SubSeq(s, i, i + Len(lit) - 1) = lit
\* where the longest run of \d from position i on ends; after it comes a literal
\* or $, neither of which a digit satisfies, so no shorter run can match
DigitsEnd(s, i) ==
  CHOOSE k \in i..(Len(s) + 1) :
    /\ \A j \in i..(k - 1) : IsDigit(s[j])
    /\ k = Len(s) + 1 \/ ~IsDigit(s[k])
\* $ without re.MULTILINE: the end of the string, or just before a newline that
\* ends the string
DollarAt(s, k) == k = Len(s) + 1 \/ (k = Len(s) /\ s[k] = Newline)

\* re.compile("job-\d+-run-\d+$").match(cluster_name): anchored at the start
ReExprMatch(cluster_name) ==
  /\ LitAt(cluster_name, 1, JobDash)
  /\ LET d1 == DigitsEnd(cluster_name, 5) IN
       /\ d1 > 5
       /\ LitAt(cluster_name, d1, DashRunDash)
       /\ LET d2 == DigitsEnd(cluster_name, d1 + 5) IN
            d2 > d1 + 5 /\ DollarAt(cluster_name, d2)

\* cluster_name.startswith(ml_model_pattern)
StartsWith(cluster_name, prefix) == LitAt(cluster_name, 1, prefix)

\* the test of line 67
IsAutomated(cluster_name) ==
  ReExprMatch(cluster_name) \/ StartsWith(cluster_name, ml_model_pattern)

\* "job-482-run-17" and the names tried around it
Job482Run17 == JobDash \o <<52, 56, 50>> \o DashRunDash \o <<49, 55>>
ClusterNames ==
  { Job482Run17,                               \* job-482-run-17
    Job482Run17 \o <<120>>,                    \* job-482-run-17x
    Job482Run17 \o <<Newline>>,                \* job-482-run-17 and a newline
    <<120>> \o Job482Run17,                    \* xjob-482-run-17
    JobDash \o DashRunDash \o <<49>>,          \* job--run-1
    JobDash \o <<52>> \o DashRunDash,          \* job-4-run-
    ml_model_pattern \o <<120>>,               \* mlflow-model-x
    ml_model_pattern,                          \* mlflow-model-
    <<120>> \o ml_model_pattern,               \* xmlflow-model-
    SubSeq(ml_model_pattern, 1, 12),           \* mlflow-model
    <<100, 101, 118>> }                        \* dev

\* a line some earlier export left in skipped_clusters.log
StaleSkipped == [cluster_id |-> 0, cluster_name |-> Job482Run17]

\* line 64: open(self._export_dir + log_file, 'w')
OpenSkippedLog ==
  /\ pc = "rac_open"
  /\ skipped_log' = <<>>
  /\ pc' = "rac_loop"
  /\ UNCHANGED <<hiverest, iciv, cluster_list, rac_i, clean_cluster_list>>

\* lines 65-70: one turn of "for cluster in cluster_list"
FilterCluster ==
  /\ pc = "rac_loop"
  /\ rac_i < Len(cluster_list)
  /\ LET cl == cluster_list[rac_i + 1] IN
       IF IsAutomated(cl.cluster_name)
       THEN /\ skipped_log' = Append(skipped_log, cl)
            /\ UNCHANGED clean_cluster_list
       ELSE /\ clean_cluster_list' = Append(clean_cluster_list, cl)
            /\ UNCHANGED skipped_log
  /\ rac_i' = rac_i + 1
  /\ UNCHANGED <<hiverest, iciv, pc, cluster_list>>

\* line 71: return clean_cluster_list
ReturnCleanList ==
  /\ pc = "rac_loop"
  /\ rac_i = Len(cluster_list)
  /\ pc' = "done"
  /\ UNCHANGED <<hiverest, clv>>

\* remove_automated_clusters(cluster_list) on up to MaxClusters clusters
InitClusters ==
  /\ pc = "rac_open"
  /\ HiveAtRest("remove_automated_clusters")
  /\ CmdIdle
  /\ ImportIdle
  /\ \E n \in 0..MaxClusters :
       \E names \in [1..n -> ClusterNames] :
         cluster_list = [i \in 1..n |-> [cluster_id |-> i, cluster_name |-> names[i]]]
  /\ rac_i = 0
  /\ clean_cluster_list = <<>>
  /\ skipped_log \in {<<>>, <<StaleSkipped>>}
  /\ ImportClustersIdle

NextClusters ==
  \/ OpenSkippedLog
  \/ FilterCluster
  \/ ReturnCleanList

SpecClusters == InitClusters /\ [][NextClusters]_vars

\* "job-" digits "-run-" digits and nothing else, each run of digits non-empty
WhollyJobRun(name) ==
  \E p \in 5..Len(name) : \E q \in (p + 6)..Len(name) :
    /\ SubSeq(name, 1, 4) = JobDash
    /\ \A j \in 5..p : IsDigit(name[j])
    /\ SubSeq(name, p + 1, p + 5) = DashRunDash
    /\ \A j \in (p + 6)..q : IsDigit(name[j])
    /\ q = Len(name)
ToBeSkipped(name) ==
  WhollyJobRun(name) \/ (Len(name) >= 13 /\ SubSeq(name, 1, 13) = ml_model_pattern)

\* every cluster of the input is either in skipped_clusters.log or in the returned
\* list, once, and the returned list keeps the input order
C23_PartitionInOrder ==
  (entry = "remove_automated_clusters" /\ pc = "done") =>
    /\ \A i \in DOMAIN cluster_list :
         Cardinality({k \in DOMAIN skipped_log : skipped_log[k] = cluster_list[i]})
           + Cardinality({k \in DOMAIN clean_cluster_list :
                            clean_cluster_list[k] = cluster_list[i]}) = 1
    /\ Len(skipped_log) + Len(clean_cluster_list) = Len(cluster_list)
    /\ clean_cluster_list =
         SelectSeq(cluster_list, LAMBDA c : c \in Range(clean_cluster_list))

\* C23 (as claimed): remove_automated_clusters puts every cluster either into
\* skipped_clusters.log or into the returned list, never both and never neither,
\* the returned list keeps the input order, and a cluster is skipped exactly when
\* its name is wholly job-<digits>-run-<digits> or starts with "mlflow-model-".
C23_SkippedExactlyAutomated ==
  /\ C23_PartitionInOrder
  /\ (entry = "remove_automated_clusters" /\ pc = "done") =>
       \A i \in DOMAIN cluster_list :
         cluster_list[i] \in Range(skipped_log) <=> ToBeSkipped(cluster_list[i].cluster_name)

\* ---------------------------------------- import_cluster_configs (clusters.py)
MaxLogLines == 2
MaxRuns == 2

\* Python's None, and what "not x" holds for among the values met here
None == "<None>"
Falsy(x) == x \in {None, ""}

\* dict operations: key in d, d.pop(key), d[key] = value, d.get(key, default)
HasKey(d, key) == key \in DOMAIN d
Pop(d, key) == [k \in DOMAIN d \ {key} |-> d[k]]
Put(d, key, value) == [k \in DOMAIN d \cup {key} |-> IF k = key THEN value ELSE d[k]]
Get(d, key, default) == IF key \in DOMAIN d THEN d[key] ELSE default

\* lines 122-127 and 164-169: the OriginalCreator tag
TagCreator(conf, cluster_creator) ==
  Put(conf, "custom_tags",
      IF HasKey(conf, "custom_tags")
      THEN Put(conf.custom_tags, "OriginalCreator", cluster_creator)
      ELSE [OriginalCreator |-> cluster_creator])

\* lines 129-133: aws_attributes is popped and put back only under "not iam_role"
CleanAwsAttributes(cluster_json) ==
  IF HasKey(cluster_json, "aws_attributes")
  THEN LET aws_conf == cluster_json.aws_attributes
           iam_role == Get(aws_conf, "instance_profile_arn", None)
           popped == Pop(cluster_json, "aws_attributes") IN
       IF Falsy(iam_role)
       THEN Put(popped, "aws_attributes", [instance_profile_arn |-> iam_role])
       ELSE popped
  ELSE cluster_json

\* what get_instance_pool_id_mapping returns: None when the target workspace has no
\* pools, else a dict from old pool ids to new ones
PoolMappings ==
  { [none |-> TRUE, ids |-> <<>>],
    [none |-> FALSE, ids |-> <<>>],
    [none |-> FALSE, ids |-> [p \in {"pool-1"} |-> "pool-9"]] }

\* line 136 raises: TypeError on None, KeyError on an old pool id it does not hold
CleanupRaises(cluster_json, pool_id_dict) ==
  pool_id_dict.none \/ cluster_json.instance_pool_id \notin DOMAIN pool_id_dict.ids

\* cleanup_cluster_pool_configs(cluster_json, cluster_creator) when it returns
CleanupClusterPoolConfigs(cluster_json, cluster_creator, pool_id_dict) ==
  LET bare == Pop(Pop(Pop(cluster_json, "node_type_id"), "driver_node_type_id"),
                  "enable_elastic_disk")
      cleaned == CleanAwsAttributes(TagCreator(bare, cluster_creator)) IN
  Put(cleaned, "instance_pool_id", pool_id_dict.ids[cleaned.instance_pool_id])

\* the records log_cluster_configs may have written for a cluster of a given name
ImportNames == {"etl", "adhoc"}
BaseConf(name) ==
  [cluster_name |-> name, creator_user_name |-> "ann", node_type_id |-> "i3.xlarge",
   driver_node_type_id |-> "i3.xlarge", enable_elastic_disk |-> "true"]
AwsConfs == {[zone_id |-> "us-west-2a"],
             [zone_id |-> "us-west-2a", instance_profile_arn |-> "arn:role-1"]}
LoggedConfs ==
  LET plain == {BaseConf(n) : n \in ImportNames}
      tagged == plain \cup {Put(c, "custom_tags", [team |-> "data"]) :
                              c \in {BaseConf("etl")}}
      withAws == tagged \cup {Put(c, "aws_attributes", a) : c \in plain, a \in AwsConfs}
  IN withAws \cup {Put(c, "instance_pool_id", "pool-1") : c \in withAws}

Workspaces == {<<>>, <<"etl">>, <<"adhoc">>, <<"etl", "adhoc">>}

\* lines 145-149: nothing to do without clusters.log; else the names of the target
\* workspace's clusters are read, once
ImportClustersStart ==
  /\ pc = "ici_start"
  /\ IF ~clusters_log.exists
     THEN /\ pc' = "done"
          /\ runs' = runs + 1
          /\ UNCHANGED <<current_cluster_names, ici_i>>
     ELSE /\ current_cluster_names' = Range(workspace)
          /\ ici_i' = 0
          /\ pc' = "ici_loop"
          /\ UNCHANGED runs
  /\ UNCHANGED <<hiverest, racv, clusters_log, workspace, create_calls>>

\* lines 174-180: create_cluster(**new_cluster_conf); on 200 the new cluster is
\* terminated, and pinned if the record says so; it stays in the workspace
CreateCluster(cluster_conf, new_cluster_conf) ==
  \E http_status_code \in {200, 400} :
    /\ create_calls' = Append(create_calls,
         [name |-> new_cluster_conf.cluster_name, conf_in |-> cluster_conf,
          conf_out |-> new_cluster_conf, status |-> http_status_code, run |-> runs + 1,
          pinned |-> http_status_code = 200 /\ HasKey(new_cluster_conf, "pinned_by_user_name")])
    /\ workspace' = IF http_status_code = 200
                    THEN Append(workspace, new_cluster_conf.cluster_name)
                    ELSE workspace

\* lines 152-180: one turn of "for line in fp"
ImportClusterLine ==
  /\ pc = "ici_loop"
  /\ ici_i < Len(clusters_log.lines)
  /\ LET line == clusters_log.lines[ici_i + 1]
         cluster_creator == line.creator_user_name
         cluster_conf == Pop(line, "creator_user_name") IN
     IF line.cluster_name \in current_cluster_names
     THEN /\ ici_i' = ici_i + 1
          /\ UNCHANGED <<pc, abort_cause, workspace, create_calls>>
     ELSE IF HasKey(cluster_conf, "instance_pool_id")
     THEN \E pool_id_dict \in PoolMappings :
            IF CleanupRaises(cluster_conf, pool_id_dict)
            THEN /\ Abort("cleanup_cluster_pool_configs: no new pool id")
                 /\ UNCHANGED <<ici_i, workspace, create_calls>>
            ELSE /\ CreateCluster(cluster_conf,
                      CleanupClusterPoolConfigs(cluster_conf, cluster_creator, pool_id_dict))
                 /\ ici_i' = ici_i + 1
                 /\ UNCHANGED <<pc, abort_cause>>
     ELSE /\ CreateCluster(cluster_conf, TagCreator(cluster_conf, cluster_creator))
          /\ ici_i' = ici_i + 1
          /\ UNCHANGED <<pc, abort_cause>>
  /\ UNCHANGED <<hivequiet, racv, clusters_log, current_cluster_names, runs>>

\* the file is exhausted and import_cluster_configs returns
ImportClustersReturn ==
  /\ pc = "ici_loop"
  /\ ici_i = Len(clusters_log.lines)
  /\ pc' = "done"
  /\ runs' = runs + 1
  /\ UNCHANGED <<hiverest, racv, clusters_log, workspace, current_cluster_names, ici_i,
                 create_calls>>

\* import_cluster_configs is called again on the same export directory
ImportClustersAgain ==
  /\ pc = "done"
  /\ runs < MaxRuns
  /\ pc' = "ici_start"
  /\ UNCHANGED <<hiverest, clv>>

\* import_cluster_configs() with a clusters.log of up to MaxLogLines records, or
\* none, into a workspace that may hold clusters of the same names
InitClusterImport ==
  /\ pc = "ici_start"
  /\ HiveAtRest("import_cluster_configs")
  /\ CmdIdle
  /\ ImportIdle
  /\ RemoveAutomatedIdle
  /\ \E n \in 0..MaxLogLines :
       \E lines \in [1..n -> LoggedConfs] :
         clusters_log \in {[exists |-> TRUE, lines |-> lines]}
                            \cup (IF n = 0 THEN {[exists |-> FALSE, lines |-> <<>>]} ELSE {})
  /\ workspace \in Workspaces
  /\ current_cluster_names = {}
  /\ ici_i = 0
  /\ create_calls = <<>>
  /\ runs = 0

NextClusterImport ==
  \/ ImportClustersStart
  \/ ImportClusterLine
  \/ ImportClustersReturn
  \/ ImportClustersAgain

SpecClusterImport == InitClusterImport /\ [][NextClusterImport]_vars

\* create_cluster calls made with what cleanup_cluster_pool_configs returned
PoolCalls == {a \in DOMAIN create_calls : HasKey(create_calls[a].conf_in, "instance_pool_id")}
RoleOfConf(conf) ==
  IF HasKey(conf, "aws_attributes") THEN Get(conf.aws_attributes, "instance_profile_arn", None)
  ELSE None

\* C24 (as claimed): what cleanup_cluster_pool_configs returns has aws_attributes
\* equal to {instance_profile_arn: role} when its argument's aws_attributes carried
\* that role, and has no instance_profile_arn set when it carried none.
C24_OnlyRoleKept ==
  \A a \in PoolCalls :
    LET role == RoleOfConf(create_calls[a].conf_in)
        out == create_calls[a].conf_out IN
    IF role # None
    THEN HasKey(out, "aws_attributes") /\ out.aws_attributes = [instance_profile_arn |-> role]
    ELSE RoleOfConf(out) = None

\* C25 (as claimed): import_cluster_configs never calls create_cluster for a name
\* that an earlier create_cluster call of the import has created, even when
\* clusters.log holds two records of that name, nor for a name the target workspace
\* held when the call began, and a call that follows calls whose create_cluster
\* calls all succeeded calls create_cluster for nothing.
C25_NeverUnderExistingName ==
  /\ \A a, b \in DOMAIN create_calls :
       (a < b /\ create_calls[a].status = 200)
         => create_calls[a].name # create_calls[b].name
  /\ \A a \in DOMAIN create_calls :
       create_calls[a].run = runs + 1 => create_calls[a].name \notin current_cluster_names
  /\ \A a \in DOMAIN create_calls :
       create_calls[a].run > 1 =>
         \E b \in DOMAIN create_calls :
           create_calls[b].run < create_calls[a].run /\ create_calls[b].status # 200
====
